---- MODULE Spec2Model ----
(***************************************************************************)
(* A model of src/src/05-objects-tasks.js: the css selector builder (the   *)
(* BaseSelector class with its constructor, checkOrder, the six mutators,  *)
(* the print helpers and stringify, the BaseCombiner constructor function  *)
(* and the cssSelectorBuilder facade), the Rectangle constructor, and      *)
(* getJSON and fromJSON.                                                   *)
(*                                                                         *)
(* Objects live in heaps, `selectors`, `combiners` and `objects`; an       *)
(* object's identity is its index.  A JavaScript string is a sequence of one        *)
(* character strings, so that '' is <<>>, s.length is Len(s) and           *)
(* concatenation is \o.                                                    *)
(***************************************************************************)
EXTENDS Integers, Sequences, FiniteSets, TLC

\* ------------------------------------------------------------ bounds

\* How many BaseSelector objects the facade may create.
MaxSelectors == 2
\* How many objects, selectors and combiners together, may exist where
\* selectors get combined.
MaxNodes == 3
\* How many mutator calls may succeed, over all selectors.
MaxCalls == 2
\* How many mutator calls may succeed on the selector of a single chain.
MaxChain == 4
\* How many Rectangle objects may be constructed.
MaxRectangles == 1
\* How many objects fromJSON may return.
MaxObjects == 1

\* The strings passed as values: the empty string and two names.
Values == { <<>>, <<"a">>, <<"b">> }
\* The strings passed where several selectors are built side by side.
FewValues == { <<>>, <<"a">> }
\* The strings passed as combinator: a conventional one and one that is not.
Tokens == { <<" ">>, <<"!">> }

Categories == {"element", "id", "class", "attr", "pseudoClass", "pseudoElement"}

\* ------------------------------------------------------------ state

VARIABLES
  selectors,   \* heap of BaseSelector objects: index -> fields
  combiners,   \* heap of BaseCombiner objects: index -> fields
  last,        \* the last operation: what was called, on what, and its outcome
  reached,     \* history: per selector, the ranks of the mutator calls that succeeded
  objects      \* heap of the objects made by `new Rectangle` and by fromJSON

vars == <<selectors, combiners, last, reached, objects>>

\* ------------------------------------------------------------ BaseSelector

\* this.callOrder before the first checkOrder: the property does not exist.
Undefined == <<>>

NoError == "none"
\* The Error thrown by BaseSelector.throwOrder.
throwOrder == "Selector parts should be arranged in the following order: element, id, class, attribute, pseudo-class, pseudo-element"
\* The Error thrown by BaseSelector.throwUnique.
throwUnique == "Element, id and pseudo-element should not occur more then one time inside the selector"

\* The outcome of a method: the object's fields afterwards and what was thrown.
Outcome(this, thrown) == [this |-> this, thrown |-> thrown]

\* undefined > order is false; a number compares as a number.
GreaterThan(callOrder, order) == callOrder # Undefined /\ callOrder[1] > order

checkOrderNoThrow(this, order) == Outcome([this EXCEPT !.callOrder = <<order>>], NoError)

checkOrderRejectsEqual(this, order) ==
  IF this.callOrder # Undefined /\ this.callOrder[1] >= order
  THEN Outcome(this, throwOrder)
  ELSE Outcome([this EXCEPT !.callOrder = <<order>>], NoError)

\* checkOrder without its assignment: the counter is never written.
checkOrderForgets(this, order) ==
  IF GreaterThan(this.callOrder, order)
  THEN Outcome(this, throwOrder)
  ELSE Outcome(this, NoError)

\* checkOrder that writes the counter before it throws.
checkOrderAssignsThenThrows(this, order) ==
  IF GreaterThan(this.callOrder, order)
  THEN Outcome([this EXCEPT !.callOrder = <<order>>], throwOrder)
  ELSE Outcome([this EXCEPT !.callOrder = <<order>>], NoError)

checkOrder(this, order) ==
  IF GreaterThan(this.callOrder, order)
  THEN Outcome(this, throwOrder)
  ELSE Outcome([this EXCEPT !.callOrder = <<order>>], NoError)

elementOrderFirst(this, value) ==
  LET c == checkOrder(this, 1) IN
  IF c.thrown # NoError THEN c
  ELSE IF Len(this.el_element) > 0 THEN Outcome(this, throwUnique)
  ELSE Outcome([c.this EXCEPT !.el_element = value], NoError)

element(this, value) ==
  IF Len(this.el_element) > 0 THEN Outcome(this, throwUnique)
  ELSE LET c == checkOrder(this, 1) IN
       IF c.thrown # NoError THEN c
       ELSE Outcome([c.this EXCEPT !.el_element = value], NoError)

idOverwrites(this, value) ==
  LET c == checkOrder(this, 2) IN
  IF c.thrown # NoError THEN c
  ELSE Outcome([c.this EXCEPT !.el_id = value], NoError)

id(this, value) ==
  IF Len(this.el_id) > 0 THEN Outcome(this, throwUnique)
  ELSE LET c == checkOrder(this, 2) IN
       IF c.thrown # NoError THEN c
       ELSE Outcome([c.this EXCEPT !.el_id = value], NoError)

\* class with unshift in place of push.
classPrepends(this, value) ==
  LET c == checkOrder(this, 3) IN
  IF c.thrown # NoError THEN c
  ELSE Outcome([c.this EXCEPT !.el_class = <<value>> \o @], NoError)

class(this, value) ==
  LET c == checkOrder(this, 3) IN
  IF c.thrown # NoError THEN c
  ELSE Outcome([c.this EXCEPT !.el_class = Append(@, value)], NoError)

attr(this, value) ==
  LET c == checkOrder(this, 4) IN
  IF c.thrown # NoError THEN c
  ELSE Outcome([c.this EXCEPT !.el_attr = Append(@, value)], NoError)

pseudoClass(this, value) ==
  LET c == checkOrder(this, 5) IN
  IF c.thrown # NoError THEN c
  ELSE Outcome([c.this EXCEPT !.el_pseudoClass = Append(@, value)], NoError)

\* pseudoElement handing the pseudo class's rank to checkOrder.
pseudoElementRankFive(this, value) ==
  IF Len(this.el_pseudoElement) > 0 THEN Outcome(this, throwUnique)
  ELSE LET c == checkOrder(this, 5) IN
       IF c.thrown # NoError THEN c
       ELSE Outcome([c.this EXCEPT !.el_pseudoElement = value], NoError)

pseudoElement(this, value) ==
  IF Len(this.el_pseudoElement) > 0 THEN Outcome(this, throwUnique)
  ELSE LET c == checkOrder(this, 6) IN
       IF c.thrown # NoError THEN c
       ELSE Outcome([c.this EXCEPT !.el_pseudoElement = value], NoError)

\* The method a category names, as the facade and the call chains use it.
Mutator(cat, this, value) ==
  CASE cat = "element" -> element(this, value)
    [] cat = "id" -> id(this, value)
    [] cat = "class" -> class(this, value)
    [] cat = "attr" -> attr(this, value)
    [] cat = "pseudoClass" -> pseudoClass(this, value)
    [] cat = "pseudoElement" -> pseudoElement(this, value)

\* The rank each mutator hands to checkOrder.
Rank(cat) ==
  CASE cat = "element" -> 1
    [] cat = "id" -> 2
    [] cat = "class" -> 3
    [] cat = "attr" -> 4
    [] cat = "pseudoClass" -> 5
    [] cat = "pseudoElement" -> 6

\* The constructor's parameter with every default taken.
NoArgs ==
  [element |-> <<>>, id |-> <<>>, className |-> <<>>, attr |-> <<>>,
   pseudoClass |-> <<>>, pseudoElement |-> <<>>]

\* The fields the constructor assigns before it looks at its parameter.
FreshFields ==
  [el_element |-> <<>>, el_id |-> <<>>, el_class |-> <<>>, el_attr |-> <<>>,
   el_pseudoClass |-> <<>>, el_pseudoElement |-> <<>>, callOrder |-> Undefined]

\* One `if (x.length) this.m(x)` of the constructor; a throw ends the constructor.
ConstructorStep(o, cat, value) ==
  IF o.thrown # NoError \/ Len(value) = 0 THEN o ELSE Mutator(cat, o.this, value)

BaseSelector(args) ==
  LET s0 == Outcome(FreshFields, NoError)
      s1 == ConstructorStep(s0, "element", args.element)
      s2 == ConstructorStep(s1, "id", args.id)
      s3 == ConstructorStep(s2, "class", args.className)
      s4 == ConstructorStep(s3, "attr", args.attr)
      s5 == ConstructorStep(s4, "pseudoClass", args.pseudoClass)
  IN  ConstructorStep(s5, "pseudoElement", args.pseudoElement)

\* ------------------------------------------------------------ rendering

RECURSIVE join(_, _)
\* Array.prototype.join on an array of strings.
join(arr, sep) ==
  IF Len(arr) = 0 THEN <<>>
  ELSE IF Len(arr) = 1 THEN arr[1]
  ELSE arr[1] \o sep \o join(Tail(arr), sep)

printElement(this) == this.el_element

printId(this) == IF Len(this.el_id) > 0 THEN <<"#">> \o this.el_id ELSE <<>>

printClassNoDot(this) ==
  IF Len(this.el_class) > 0 THEN join(this.el_class, <<".">>) ELSE <<>>

printClass(this) ==
  IF Len(this.el_class) > 0 THEN <<".">> \o join(this.el_class, <<".">>) ELSE <<>>

printAttr(this) ==
  join([i \in 1..Len(this.el_attr) |-> <<"[">> \o this.el_attr[i] \o <<"]">>], <<>>)

printPseudoClass(this) ==
  IF Len(this.el_pseudoClass) > 0
  THEN <<":">> \o join(this.el_pseudoClass, <<":">>) ELSE <<>>

printPseudoElement(this) ==
  IF Len(this.el_pseudoElement) > 0
  THEN <<":", ":">> \o this.el_pseudoElement ELSE <<>>

stringify(this) ==
  printElement(this) \o printId(this) \o printClass(this)
    \o printAttr(this) \o printPseudoClass(this) \o printPseudoElement(this)

\* ------------------------------------------------------------ heap

SelectorRef(i) == [kind |-> "selector", idx |-> i]
CombinerRef(j) == [kind |-> "combiner", idx |-> j]

\* Every object a caller may hold a reference to.
Nodes ==
  {SelectorRef(i) : i \in 1..Len(selectors)} \cup {CombinerRef(j) : j \in 1..Len(combiners)}

\* The object BaseCombiner constructs.
BaseCombiner(selector1, combiner, selector2) ==
  [selector1 |-> selector1, combiner |-> combiner, selector2 |-> selector2]

RECURSIVE stringifyNode(_)

\* The combiner's template without the spaces around the combinator.
stringifyNodeNoSpaces(n) ==
  IF n.kind = "selector" THEN stringify(selectors[n.idx])
  ELSE LET c == combiners[n.idx] IN
       stringifyNode(c.selector1) \o c.combiner \o stringifyNode(c.selector2)

\* node.stringify(): BaseSelector.prototype.stringify or the combiner's own arrow.
stringifyNode(n) ==
  IF n.kind = "selector" THEN stringify(selectors[n.idx])
  ELSE LET c == combiners[n.idx] IN
       stringifyNode(c.selector1) \o <<" ">> \o c.combiner \o <<" ">>
         \o stringifyNode(c.selector2)

\* The value of `last` fields that do not apply to the operation.
NoNode == [kind |-> "none", idx |-> 0]

RECURSIVE SumLen(_)
SumLen(seqs) == IF Len(seqs) = 0 THEN 0 ELSE Len(seqs[1]) + SumLen(Tail(seqs))

\* How many mutator calls have succeeded so far.
TotalCalls == SumLen(reached)

\* ------------------------------------------------------------ cssSelectorBuilder

builder_element(value) == BaseSelector([NoArgs EXCEPT !.element = value])
builder_id(value) == BaseSelector([NoArgs EXCEPT !.id = value])
builder_class(value) == BaseSelector([NoArgs EXCEPT !.className = value])
builder_attr(value) == BaseSelector([NoArgs EXCEPT !.attr = value])
builder_pseudoClass(value) == BaseSelector([NoArgs EXCEPT !.pseudoClass = value])
builder_pseudoElement(value) == BaseSelector([NoArgs EXCEPT !.pseudoElement = value])

Builder(cat, value) ==
  CASE cat = "element" -> builder_element(value)
    [] cat = "id" -> builder_id(value)
    [] cat = "class" -> builder_class(value)
    [] cat = "attr" -> builder_attr(value)
    [] cat = "pseudoClass" -> builder_pseudoClass(value)
    [] cat = "pseudoElement" -> builder_pseudoElement(value)

\* ------------------------------------------------------------ operations

\* cssSelectorBuilder.<cat>(value): a new BaseSelector, returned to the caller.
Facade(cat, value) ==
  LET o == Builder(cat, value)
      applied == IF Len(value) > 0 THEN <<Rank(cat)>> ELSE <<>>
  IN  /\ o.thrown = NoError
      /\ selectors' = Append(selectors, o.this)
      /\ reached' = Append(reached, applied)
      /\ last' = [op |-> "facade", cat |-> cat, node |-> NoNode, value |-> value,
                  thrown |-> NoError, ret |-> SelectorRef(Len(selectors) + 1),
                  out |-> <<>>]
      /\ UNCHANGED combiners

\* The call chain with the arrays and the counter shared by every instance, as
\* fields kept on the prototype (or on the facade) would be.
CallOnSharedState(s, cat, value) ==
  LET o == Mutator(cat, selectors[s], value) IN
  /\ selectors' = [i \in 1..Len(selectors) |->
                     IF i = s THEN o.this
                     ELSE [selectors[i] EXCEPT !.el_class = o.this.el_class,
                                               !.el_attr = o.this.el_attr,
                                               !.el_pseudoClass = o.this.el_pseudoClass,
                                               !.callOrder = o.this.callOrder]]
  /\ reached' = IF o.thrown = NoError
                THEN [reached EXCEPT ![s] = Append(@, Rank(cat))]
                ELSE reached
  /\ last' = [op |-> "call", cat |-> cat, node |-> SelectorRef(s),
              value |-> IF o.thrown = NoError THEN value ELSE <<>>,
              thrown |-> o.thrown,
              ret |-> IF o.thrown = NoError THEN SelectorRef(s) ELSE NoNode,
              out |-> <<>>]
  /\ UNCHANGED combiners

\* selectors[s].<cat>(value): a chained mutator call on an existing BaseSelector.
\* `last` keeps the argument of a call that returned; a call that threw leaves
\* only its error behind.
Call(s, cat, value) ==
  LET o == Mutator(cat, selectors[s], value) IN
  /\ selectors' = [selectors EXCEPT ![s] = o.this]
  /\ reached' = IF o.thrown = NoError
                THEN [reached EXCEPT ![s] = Append(@, Rank(cat))]
                ELSE reached
  /\ last' = [op |-> "call", cat |-> cat, node |-> SelectorRef(s),
              value |-> IF o.thrown = NoError THEN value ELSE <<>>,
              thrown |-> o.thrown,
              ret |-> IF o.thrown = NoError THEN SelectorRef(s) ELSE NoNode,
              out |-> <<>>]
  /\ UNCHANGED combiners

\* stringify() that clears the fields it has rendered, as the builder this code
\* replaced did.
StringifyAndClear(n) ==
  /\ last' = [op |-> "stringify", cat |-> "", node |-> n, value |-> <<>>,
              thrown |-> NoError, ret |-> NoNode, out |-> stringifyNode(n)]
  /\ selectors' = IF n.kind = "selector"
                  THEN [selectors EXCEPT ![n.idx] = FreshFields]
                  ELSE selectors
  /\ UNCHANGED <<combiners, reached>>

\* n.stringify() on a selector or a combiner.
Stringify(n) ==
  /\ last' = [op |-> "stringify", cat |-> "", node |-> n, value |-> <<>>,
              thrown |-> NoError, ret |-> NoNode, out |-> stringifyNode(n)]
  /\ UNCHANGED <<selectors, combiners, reached>>

\* combine() that renders its operands at once and clears them, as the builder
\* this code replaced did.
CombineAndClear(a, t, b) ==
  /\ combiners' = Append(combiners, BaseCombiner(a, t, b))
  /\ last' = [op |-> "combine", cat |-> "", node |-> NoNode, value |-> t,
              thrown |-> NoError, ret |-> CombinerRef(Len(combiners) + 1),
              out |-> <<>>]
  /\ selectors' = [i \in 1..Len(selectors) |->
                     IF SelectorRef(i) \in {a, b} THEN FreshFields ELSE selectors[i]]
  /\ UNCHANGED reached

\* cssSelectorBuilder.combine(a, t, b): a new BaseCombiner holding both references.
Combine(a, t, b) ==
  /\ combiners' = Append(combiners, BaseCombiner(a, t, b))
  /\ last' = [op |-> "combine", cat |-> "", node |-> NoNode, value |-> t,
              thrown |-> NoError, ret |-> CombinerRef(Len(combiners) + 1),
              out |-> <<>>]
  /\ UNCHANGED <<selectors, reached>>

Init ==
  /\ selectors = <<>>
  /\ combiners = <<>>
  /\ reached = <<>>
  /\ objects = <<>>
  /\ last = [op |-> "init", cat |-> "", node |-> NoNode, value |-> <<>>,
             thrown |-> NoError, ret |-> NoNode, out |-> <<>>]

\* ------------------------------------------------------------ specifications

\* A facade call fits when it creates at most the maxSelectors-th selector and
\* the mutator call it makes, if any, is at most the maxCalls-th to succeed.
FacadeFits(value, maxSelectors, maxCalls) ==
  /\ Len(selectors) < maxSelectors
  /\ TotalCalls + (IF Len(value) > 0 THEN 1 ELSE 0) <= maxCalls

\* A chained call fits when it throws or is at most the maxCalls-th to succeed.
CallFits(s, cat, value, maxCalls) ==
  Mutator(cat, selectors[s], value).thrown = NoError => TotalCalls < maxCalls

\* The facade's six entry points and the call chains on the selectors they return.
Next ==
  /\ UNCHANGED objects
  /\ \/ \E cat \in Categories, v \in FewValues :
          FacadeFits(v, MaxSelectors, MaxCalls) /\ Facade(cat, v)
     \/ \E s \in 1..Len(selectors), cat \in Categories, v \in FewValues :
          CallFits(s, cat, v, MaxCalls) /\ Call(s, cat, v)

Spec == Init /\ [][Next]_vars

\* One selector and the chain of calls on it.
NextChain ==
  /\ UNCHANGED objects
  /\ \/ \E cat \in Categories, v \in Values :
          FacadeFits(v, 1, MaxChain) /\ Facade(cat, v)
     \/ \E s \in 1..Len(selectors), cat \in Categories, v \in Values :
          CallFits(s, cat, v, MaxChain) /\ Call(s, cat, v)

SpecChain == Init /\ [][NextChain]_vars

\* The categories and names the selectors are built from where they get combined.
CombinedCategories == {"element", "class"}
CombinedValues == { <<"a">>, <<"b">> }

\* Building, combining and rendering.
NextCombine ==
  /\ UNCHANGED objects
  /\ \/ \E cat \in CombinedCategories, v \in CombinedValues :
          /\ Len(selectors) + Len(combiners) < MaxNodes
          /\ FacadeFits(v, MaxNodes, MaxCalls)
          /\ Facade(cat, v)
     \/ \E s \in 1..Len(selectors), cat \in CombinedCategories, v \in CombinedValues :
          CallFits(s, cat, v, MaxCalls) /\ Call(s, cat, v)
     \/ \E n \in Nodes : Stringify(n)
     \/ \E a \in Nodes, b \in Nodes, t \in Tokens :
          Len(selectors) + Len(combiners) < MaxNodes /\ Combine(a, t, b)

SpecCombine == Init /\ [][NextCombine]_vars

\* ------------------------------------------------------------ Rectangle

\* The numbers passed as width and height, and assigned to the fields later.
Dimensions == {0, 2, -3}

\* The arrow function of the constructor, computing the area once from the
\* constructor's parameters.
getAreaOfParameters(closure) == closure.width * closure.height

\* A call of the arrow function `() => this.width * this.height`: `this` is the
\* object under construction, whose fields are read when the function runs.
getArea(closure) == objects[closure.this].width * objects[closure.this].height

\* The object `new Rectangle(width, height)` leaves at heap index `self`; the
\* arrow function closes over `this` and over the two parameters.
Rectangle(self, width, height) ==
  [width |-> width,
   height |-> height,
   getArea |-> [this |-> self, width |-> width, height |-> height]]

\* const r = new Rectangle(width, height)
NewRectangle(width, height) ==
  /\ objects' = Append(objects, Rectangle(Len(objects) + 1, width, height))
  /\ last' = [op |-> "new Rectangle", width |-> width, height |-> height,
              ret |-> Len(objects) + 1]
  /\ UNCHANGED <<selectors, combiners, reached>>

\* r.width = value, or r.height = value: the fields are plain properties.
AssignField(r, field, value) ==
  /\ objects' = [objects EXCEPT ![r] =
                   IF field = "width" THEN [@ EXCEPT !.width = value]
                   ELSE [@ EXCEPT !.height = value]]
  /\ last' = [op |-> "assign", node |-> r, field |-> field, value |-> value]
  /\ UNCHANGED <<selectors, combiners, reached>>

\* r.getArea()
CallGetArea(r) ==
  /\ last' = [op |-> "getArea", node |-> r, out |-> getArea(objects[r].getArea)]
  /\ UNCHANGED <<selectors, combiners, reached, objects>>

\* Constructing rectangles, writing their fields and asking for their area.
NextRectangle ==
  \/ \E w \in Dimensions, h \in Dimensions :
       Len(objects) < MaxRectangles /\ NewRectangle(w, h)
  \/ \E r \in 1..Len(objects), f \in {"width", "height"}, v \in Dimensions :
       AssignField(r, f, v)
  \/ \E r \in 1..Len(objects) : CallGetArea(r)

SpecRectangle == Init /\ [][NextRectangle]_vars

\* ------------------------------------------------------------ JavaScript values and JSON text

\* A JavaScript value is a tag and a payload.  A string is its sequence of
\* characters, an array its sequence of items, and an object the sequence of
\* its own enumerable properties [k, v] in property order.
Num(n) == [t |-> "number", v |-> n]
Str(s) == [t |-> "string", v |-> s]
Null == [t |-> "null", v |-> 0]
UndefinedValue == [t |-> "undefined", v |-> 0]
Arr(items) == [t |-> "array", v |-> items]
Obj(props) == [t |-> "object", v |-> props]

Property(k, v) == [k |-> k, v |-> v]

HasOwnProperty(props, key) == \E i \in 1..Len(props) : props[i].k = key

\* CreateDataProperty: an existing own property keeps its place and takes the
\* new value, a new one goes last.
CreateDataProperty(props, key, value) ==
  IF HasOwnProperty(props, key)
  THEN [i \in 1..Len(props) |->
          IF props[i].k = key THEN Property(key, value) ELSE props[i]]
  ELSE Append(props, Property(key, value))

DigitChars == <<"0", "1", "2", "3", "4", "5", "6", "7", "8", "9">>

IsDigit(c) == \E d \in 1..10 : DigitChars[d] = c

DigitValue(c) == (CHOOSE d \in 1..10 : DigitChars[d] = c) - 1

\* Number::toString of an integer.
RECURSIVE NumberToString(_)
NumberToString(n) ==
  IF n < 0 THEN <<"-">> \o NumberToString(-n)
  ELSE IF n < 10 THEN <<DigitChars[n + 1]>>
  ELSE NumberToString(n \div 10) \o <<DigitChars[(n % 10) + 1]>>

NullText == <<"n", "u", "l", "l">>

\* QuoteJSONString: the quotation mark and the reverse solidus are escaped.
RECURSIVE EscapedChars(_)
EscapedChars(s) ==
  IF Len(s) = 0 THEN <<>>
  ELSE (IF Head(s) \in {"\"", "\\"} THEN <<"\\", Head(s)>> ELSE <<Head(s)>>)
         \o EscapedChars(Tail(s))

QuoteJSONString(s) == <<"\"">> \o EscapedChars(s) \o <<"\"">>

\* JSON.stringify of a value that is not itself undefined: a property whose
\* value is undefined is left out, an undefined array item is written as null.
RECURSIVE SerializeJSONProperty(_)
SerializeJSONProperty(value) ==
  CASE value.t = "number" -> NumberToString(value.v)
    [] value.t = "string" -> QuoteJSONString(value.v)
    [] value.t = "null" -> NullText
    [] value.t = "array" ->
         <<"[">>
           \o join([i \in 1..Len(value.v) |->
                      IF value.v[i].t = "undefined" THEN NullText
                      ELSE SerializeJSONProperty(value.v[i])], <<",">>)
           \o <<"]">>
    [] value.t = "object" ->
         LET kept == SelectSeq(value.v, LAMBDA p : p.v.t # "undefined") IN
           <<"{">>
             \o join([i \in 1..Len(kept) |->
                        QuoteJSONString(kept[i].k) \o <<":">>
                          \o SerializeJSONProperty(kept[i].v)], <<",">>)
             \o <<"}">>

JSON_stringify(value) == SerializeJSONProperty(value)

\* The result of reading a piece of JSON text: whether it was well formed, the
\* value read and the position after it.
ParseFailure == [ok |-> FALSE, v |-> Null, next |-> 0]

Parsed(value, next) == [ok |-> TRUE, v |-> value, next |-> next]

\* The character at position i, or the empty string past the end of the text.
CharAt(text, i) == IF i >= 1 /\ i <= Len(text) THEN text[i] ELSE ""

\* The characters of a string literal, from the one after its opening quote.
RECURSIVE ParseChars(_, _, _)
ParseChars(text, i, acc) ==
  IF i > Len(text) THEN ParseFailure
  ELSE IF text[i] = "\"" THEN Parsed(Str(acc), i + 1)
  ELSE IF text[i] = "\\"
    THEN (IF CharAt(text, i + 1) \in {"\"", "\\"}
          THEN ParseChars(text, i + 2, Append(acc, text[i + 1]))
          ELSE ParseFailure)
  ELSE ParseChars(text, i + 1, Append(acc, text[i]))

RECURSIVE ParseDigits(_, _, _)
ParseDigits(text, i, acc) ==
  IF IsDigit(CharAt(text, i))
  THEN ParseDigits(text, i + 1, acc * 10 + DigitValue(text[i]))
  ELSE Parsed(Num(acc), i)

\* An integer literal: an optional minus sign, then either a single zero or
\* digits that do not start with zero.
ParseNumber(text, i) ==
  LET first == IF text[i] = "-" THEN i + 1 ELSE i
      digits == IF CharAt(text, first) = "0" THEN Parsed(Num(0), first + 1)
                ELSE IF IsDigit(CharAt(text, first)) THEN ParseDigits(text, first, 0)
                ELSE ParseFailure
  IN IF digits.ok /\ text[i] = "-"
     THEN Parsed(Num(-digits.v.v), digits.next)
     ELSE digits

RECURSIVE ParseValue(_, _)
RECURSIVE ParseElements(_, _, _)
RECURSIVE ParseMembers(_, _, _)

\* The items of an array literal, from the start of an item.
ParseElements(text, i, acc) ==
  LET item == ParseValue(text, i) IN
    IF ~item.ok THEN ParseFailure
    ELSE IF CharAt(text, item.next) = ","
      THEN ParseElements(text, item.next + 1, Append(acc, item.v))
    ELSE IF CharAt(text, item.next) = "]"
      THEN Parsed(Arr(Append(acc, item.v)), item.next + 1)
    ELSE ParseFailure

\* The members of an object literal, from the start of a member's key.
ParseMembers(text, i, acc) ==
  LET key == IF CharAt(text, i) = "\"" THEN ParseChars(text, i + 1, <<>>)
             ELSE ParseFailure
      member == IF key.ok /\ CharAt(text, key.next) = ":"
                THEN ParseValue(text, key.next + 1)
                ELSE ParseFailure
      props == CreateDataProperty(acc, key.v.v, member.v)
  IN IF ~member.ok THEN ParseFailure
     ELSE IF CharAt(text, member.next) = ","
       THEN ParseMembers(text, member.next + 1, props)
     ELSE IF CharAt(text, member.next) = "}"
       THEN Parsed(Obj(props), member.next + 1)
     ELSE ParseFailure

ParseValue(text, i) ==
  LET c == CharAt(text, i) IN
    CASE c = "{" -> IF CharAt(text, i + 1) = "}" THEN Parsed(Obj(<<>>), i + 2)
                    ELSE ParseMembers(text, i + 1, <<>>)
      [] c = "[" -> IF CharAt(text, i + 1) = "]" THEN Parsed(Arr(<<>>), i + 2)
                    ELSE ParseElements(text, i + 1, <<>>)
      [] c = "\"" -> ParseChars(text, i + 1, <<>>)
      [] c = "n" -> IF i + 3 <= Len(text) /\ SubSeq(text, i, i + 3) = NullText
                    THEN Parsed(Null, i + 4)
                    ELSE ParseFailure
      [] c = "-" \/ IsDigit(c) -> ParseNumber(text, i)
      [] OTHER -> ParseFailure

\* JSON.parse of a text without white space: the whole text must be one value.
JSON_parse(text) ==
  LET r == ParseValue(text, 1) IN
    IF r.ok /\ r.next = Len(text) + 1 THEN r ELSE ParseFailure

\* ------------------------------------------------------------ getJSON and fromJSON

getJSON(obj) == JSON_stringify(obj)

\* The prototypes an object can have: the caller's Circle.prototype (methods
\* only, inheriting from Object.prototype), null, or a parsed value made the
\* prototype by the __proto__ setter of Object.prototype.
CirclePrototype == [kind |-> "Circle.prototype", value |-> Null]
NullPrototype == [kind |-> "null", value |-> Null]
ValuePrototype(value) == [kind |-> "value", value |-> value]

ProtoKey == <<"_", "_", "p", "r", "o", "t", "o", "_", "_">>

\* Object.create(proto): no own properties yet.
Object_create(proto) == [proto |-> proto, props |-> <<>>]

\* What JSON.stringify sees of an object of the heap: its own enumerable
\* properties (none of the prototypes above has a toJSON method).
OwnProperties(O) == Obj(O.props)

\* O[key] = value, the [[Set]] Object.assign performs.  An own property is
\* overwritten.  Otherwise the key is looked up along the prototype chain:
\* when the chain reaches Object.prototype the key __proto__ finds its
\* accessor, whose setter replaces the prototype of O by an object or null and
\* ignores every other value; any other key becomes a new own property.
OrdinarySet(O, key, value) ==
  IF HasOwnProperty(O.props, key)
    THEN [O EXCEPT !.props = CreateDataProperty(@, key, value)]
  ELSE IF key = ProtoKey /\ O.proto.kind # "null"
    THEN (IF value.t \in {"object", "array"}
            THEN [O EXCEPT !.proto = ValuePrototype(value)]
          ELSE IF value.t = "null" THEN [O EXCEPT !.proto = NullPrototype]
          ELSE O)
  ELSE [O EXCEPT !.props = CreateDataProperty(@, key, value)]

\* The own enumerable properties Object.assign copies from its source.
OwnEnumerable(value) ==
  CASE value.t = "object" -> value.v
    [] value.t = "array" ->
         [i \in 1..Len(value.v) |-> Property(NumberToString(i - 1), value.v[i])]
    [] value.t = "string" ->
         [i \in 1..Len(value.v) |-> Property(NumberToString(i - 1), Str(<<value.v[i]>>))]
    [] OTHER -> <<>>

RECURSIVE AssignAll(_, _)
AssignAll(O, props) ==
  IF Len(props) = 0 THEN O
  ELSE AssignAll(OrdinarySet(O, Head(props).k, Head(props).v), Tail(props))

Object_assign(target, source) == AssignAll(target, OwnEnumerable(source))

\* fromJSON(proto, json): the object returned, or the SyntaxError of JSON.parse.
fromJSON(proto, json) ==
  LET data == JSON_parse(json) IN
    IF ~data.ok
    THEN [thrown |-> "SyntaxError", obj |-> Object_create(proto)]
    ELSE [thrown |-> NoError, obj |-> Object_assign(Object_create(proto), data.v)]

\* The values of the fields of the plain data objects handed to getJSON.
Keys == {<<"a">>, ProtoKey}

FieldValues ==
  {Num(7), Num(-12), Str(<<"b", "\"">>), Null, UndefinedValue,
   Arr(<<>>), Arr(<<Num(7), UndefinedValue>>),
   Obj(<<>>), Obj(<<Property(<<"a">>, Num(7))>>)}

\* The plain data objects: up to two fields, in either order.
PlainObjects ==
  {Obj(<<>>)}
    \cup {Obj(<<Property(k, v)>>) : k \in Keys, v \in FieldValues}
    \cup {Obj(<<Property(k[1], v[1]), Property(k[2], v[2])>>) :
            k \in {p \in Keys \X Keys : p[1] # p[2]}, v \in FieldValues \X FieldValues}

\* '{"a":7,"a":null}', a key written twice, and '{', which is not JSON.
RepeatedKeyText ==
  <<"{", "\"", "a", "\"", ":", "7", ",", "\"", "a", "\"", ":", "n", "u", "l", "l", "}">>

MalformedText == <<"{">>

JsonTexts == {getJSON(obj) : obj \in PlainObjects} \cup {RepeatedKeyText, MalformedText}

Prototypes == {CirclePrototype, NullPrototype}

\* const obj = fromJSON(proto, json)
FromJSON(proto, json) ==
  LET r == fromJSON(proto, json) IN
    /\ objects' = IF r.thrown = NoError THEN Append(objects, r.obj) ELSE objects
    /\ last' = [op |-> "fromJSON", proto |-> proto, json |-> json,
                thrown |-> r.thrown,
                ret |-> IF r.thrown = NoError THEN Len(objects) + 1 ELSE 0]
    /\ UNCHANGED <<selectors, combiners, reached>>

\* getJSON(obj) of an object fromJSON returned.
GetJSON(o) ==
  /\ last' = [op |-> "getJSON", node |-> o, out |-> getJSON(OwnProperties(objects[o]))]
  /\ UNCHANGED <<selectors, combiners, reached, objects>>

\* Deserializing texts against prototypes and serializing the results.
NextJSON ==
  \/ \E proto \in Prototypes, json \in JsonTexts :
       Len(objects) < MaxObjects /\ FromJSON(proto, json)
  \/ \E o \in 1..Len(objects) : GetJSON(o)

SpecJSON == Init /\ [][NextJSON]_vars

\* ------------------------------------------------------------ vocabulary of the claims

Exclusive == {"element", "id", "pseudoElement"}

\* The field an exclusive category's mutator tests and assigns.
ExclusiveField(this, cat) ==
  CASE cat = "element" -> this.el_element
    [] cat = "id" -> this.el_id
    [] cat = "pseudoElement" -> this.el_pseudoElement

\* The array a repeatable category's mutator pushes to.
RepeatableField(this, cat) ==
  CASE cat = "class" -> this.el_class
    [] cat = "attr" -> this.el_attr
    [] cat = "pseudoClass" -> this.el_pseudoClass

\* A category is set on a selector when its field holds a value (a non-empty
\* string): the test the mutators themselves make.  Repeatable categories are
\* never set in this sense.
IsSet(this, cat) == cat \in Exclusive /\ Len(ExclusiveField(this, cat)) > 0

\* The highest rank among the calls that succeeded on a selector, 0 when none did.
Highest(ranks) ==
  IF Len(ranks) = 0 THEN 0
  ELSE CHOOSE r \in {ranks[i] : i \in 1..Len(ranks)} :
         \A i \in 1..Len(ranks) : ranks[i] <= r

\* The step taken is a chained mutator call, on the selector Target.
IsCall == last'.op = "call"
Target == last'.node.idx

\* ------------------------------------------------------------ C1

\* C1: a mutator call whose rank is strictly lower than the highest rank a
\* successful call has reached on that selector throws and changes nothing; when
\* the category's own field is not set, what it throws is the order error.
C1_OrderEnforced ==
  [][(IsCall /\ Rank(last'.cat) < Highest(reached[Target]))
       => /\ last'.thrown # NoError
          /\ selectors' = selectors
          /\ reached' = reached
          /\ ~IsSet(selectors[Target], last'.cat) => last'.thrown = throwOrder]_vars

\* A call of a lower rank than one already reached has thrown the order error.
C1_Witness ==
  /\ last.op = "call"
  /\ last.thrown = throwOrder
  /\ Rank(last.cat) < Highest(reached[last.node.idx])

\* ------------------------------------------------------------ C2

C3_UniquenessFirst ==
  [][(/\ IsCall
      /\ IsSet(selectors[Target], last'.cat)
      /\ Highest(reached[Target]) > Rank(last'.cat))
       => last'.thrown = throwUnique]_vars

\* element('a').id('x').element('b') and its like: both rules broken at once.
C3_Witness ==
  /\ last.op = "call"
  /\ last.thrown = throwUnique
  /\ IsSet(selectors[last.node.idx], last.cat)
  /\ Highest(reached[last.node.idx]) > Rank(last.cat)

\* ------------------------------------------------------------ C4

\* C4: a call whose rank is not below the selector's rank counter and whose
\* category is not set never throws: it stores or appends its argument, sets the
\* counter to its rank and returns the selector it was called on.
C4_ValidCallAccepted ==
  [][(/\ IsCall
      /\ ~GreaterThan(selectors[Target].callOrder, Rank(last'.cat))
      /\ ~IsSet(selectors[Target], last'.cat))
       => /\ last'.thrown = NoError
          /\ last'.ret = last'.node
          /\ selectors'[Target].callOrder = <<Rank(last'.cat)>>
          /\ IF last'.cat \in Exclusive
             THEN ExclusiveField(selectors'[Target], last'.cat) = last'.value
             ELSE RepeatableField(selectors'[Target], last'.cat)
                    = Append(RepeatableField(selectors[Target], last'.cat), last'.value)]_vars

\* A repeatable category was accepted a second time at its own rank.
C4_Witness ==
  /\ last.op = "call"
  /\ last.thrown = NoError
  /\ last.cat \in Categories \ Exclusive
  /\ LET ranks == reached[last.node.idx] IN
       Len(ranks) >= 2 /\ ranks[Len(ranks) - 1] = Rank(last.cat)

\* ------------------------------------------------------------ C5

RECURSIVE Concat(_)
\* The strings of a sequence, one after the other.
Concat(strs) == IF Len(strs) = 0 THEN <<>> ELSE strs[1] \o Concat(Tail(strs))

\* Every entry of an array wrapped in a prefix and a suffix, in insertion order.
EachWrapped(arr, prefix, suffix) ==
  Concat([i \in 1..Len(arr) |-> prefix \o arr[i] \o suffix])

\* The format the claim gives for a selector's fields.
RenderFormat(this) ==
  this.el_element
    \o (IF this.el_id # <<>> THEN <<"#">> \o this.el_id ELSE <<>>)
    \o EachWrapped(this.el_class, <<".">>, <<>>)
    \o EachWrapped(this.el_attr, <<"[">>, <<"]">>)
    \o EachWrapped(this.el_pseudoClass, <<":">>, <<>>)
    \o (IF this.el_pseudoElement # <<>> THEN <<":", ":">> \o this.el_pseudoElement ELSE <<>>)

\* C5: in every reachable state stringify() of a selector is the element name,
\* '#'+id, '.'+name per class, '['+expr+']' per attribute, ':'+name per pseudo
\* class and '::'+name of the pseudo element, in this order, each list in
\* insertion order, unset or empty categories contributing nothing.
C5_RenderFormat ==
  \A s \in 1..Len(selectors) : stringify(selectors[s]) = RenderFormat(selectors[s])

\* A selector with two different classes, and one with a part before its class.
C5_Witness ==
  /\ \E s \in 1..Len(selectors) :
       Len(selectors[s].el_class) = 2 /\ selectors[s].el_class[1] # selectors[s].el_class[2]
  /\ \E s \in 1..Len(selectors) :
       Len(selectors[s].el_class) > 0
         /\ (selectors[s].el_element # <<>> \/ selectors[s].el_id # <<>>)

\* ------------------------------------------------------------ C9

\* C9: a facade call leaves every existing selector as it was and returns a new
\* one, whose state depends on the arguments alone; a mutator call on one
\* selector, whether it returns or throws, changes no field, rank counter or
\* rendering of any other selector.
C9_FacadeIndependence ==
  [][/\ last'.op = "facade"
          => /\ Len(selectors') = Len(selectors) + 1
             /\ last'.ret = SelectorRef(Len(selectors'))
             /\ selectors'[Len(selectors')] = Builder(last'.cat, last'.value).this
             /\ \A i \in 1..Len(selectors) : selectors'[i] = selectors[i]
     /\ IsCall
          => /\ Len(selectors') = Len(selectors)
             /\ \A i \in 1..Len(selectors) :
                  i # Target => /\ selectors'[i] = selectors[i]
                                /\ reached'[i] = reached[i]
                                /\ stringify(selectors'[i]) = stringify(selectors[i])]_vars

\* A call has returned on the first selector while a second one, created after
\* it, holds a part.
C9_Witness ==
  /\ last.op = "call"
  /\ last.thrown = NoError
  /\ last.node = SelectorRef(1)
  /\ Len(selectors) = 2
  /\ selectors[2] # FreshFields

\* ------------------------------------------------------------ C10

\* What `new BaseSelector({})` followed by one call of the category's mutator
\* leaves behind.
EmptyThenMutator(cat, value) == Mutator(cat, BaseSelector(NoArgs).this, value).this

\* C10: the selector a facade entry point returns is in the state of an empty
\* selector on which the category's mutator was called once with the same
\* argument, the empty string included; its rank counter is the category's rank.
C10_FacadeIsOneMutator ==
  last.op = "facade"
    => /\ selectors[last.ret.idx] = EmptyThenMutator(last.cat, last.value)
       /\ selectors[last.ret.idx].callOrder = <<Rank(last.cat)>>

\* ------------------------------------------------------------ C6

\* C6: stringify() on a selector or on a combiner changes no field of any
\* selector, rank counter included, and no combiner; a second stringify() on the
\* same node right after the first returns the same string.
C6_RenderIsPure ==
  [][last'.op = "stringify"
       => /\ selectors' = selectors
          /\ combiners' = combiners
          /\ (last.op = "stringify" /\ last.node = last'.node) => last'.out = last.out]_vars

\* A combiner over a selector that holds a part has been rendered.
C6_Witness ==
  /\ last.op = "stringify"
  /\ last.node.kind = "combiner"
  /\ \E i \in 1..Len(selectors) :
       /\ selectors[i] # FreshFields
       /\ SelectorRef(i) \in {combiners[last.node.idx].selector1,
                              combiners[last.node.idx].selector2}

\* ------------------------------------------------------------ C7

RECURSIVE InOrder(_)
\* The leaves and combinators of a node, left to right: the renderings of its
\* selectors with the combinators between them.
InOrder(n) ==
  IF n.kind = "selector" THEN <<stringify(selectors[n.idx])>>
  ELSE InOrder(combiners[n.idx].selector1) \o <<combiners[n.idx].combiner>>
         \o InOrder(combiners[n.idx].selector2)

\* C7: a combiner renders as its left side, a space, the combinator as given, a
\* space and its right side; nested combiners therefore render their selectors
\* and combinators left to right with single spaces between them, and stringify()
\* returns that string.
C7_CombinedRender ==
  /\ \A j \in 1..Len(combiners) :
       /\ stringifyNode(CombinerRef(j))
            = stringifyNode(combiners[j].selector1) \o <<" ">> \o combiners[j].combiner
                \o <<" ">> \o stringifyNode(combiners[j].selector2)
       /\ stringifyNode(CombinerRef(j)) = join(InOrder(CombinerRef(j)), <<" ">>)
  /\ (last.op = "stringify" /\ last.node.kind = "combiner")
       => last.out = join(InOrder(last.node), <<" ">>)

\* A combiner whose right side is a combiner and whose combinator is ' ' has
\* been rendered: three spaces in a row.
C7_Witness ==
  /\ last.op = "stringify"
  /\ last.node.kind = "combiner"
  /\ combiners[last.node.idx].selector2.kind = "combiner"
  /\ combiners[last.node.idx].combiner = <<" ">>
  /\ \E k \in 1..(Len(last.out) - 2) :
       last.out[k] = " " /\ last.out[k + 1] = " " /\ last.out[k + 2] = " "

\* ------------------------------------------------------------ C8

\* C8: combine(a, t, b) and every stringify() afterwards leave the fields and
\* the rank counter of every selector, a and b included, and every existing
\* combiner as they were, so what a and b render and accept does not change.
C8_CombineKeepsOperands ==
  [][last'.op \in {"combine", "stringify"}
       => /\ selectors' = selectors
          /\ reached' = reached
          /\ \A j \in 1..Len(combiners) : combiners'[j] = combiners[j]
          /\ \A n \in Nodes : stringifyNode(n)' = stringifyNode(n)]_vars

\* Two selectors, one of them holding a part, have just been combined.
C8_Witness ==
  /\ last.op = "combine"
  /\ LET c == combiners[last.ret.idx] IN
       /\ c.selector1.kind = "selector"
       /\ c.selector2.kind = "selector"
       /\ selectors[c.selector1.idx] # FreshFields

\* ------------------------------------------------------------ C14

\* A category holds a value on a selector: its field is a non-empty string, or
\* its array has an entry.
HoldsValue(this, cat) ==
  IF cat \in Exclusive THEN Len(ExclusiveField(this, cat)) > 0
  ELSE Len(RepeatableField(this, cat)) > 0

\* The counter as a number, 0 while it is unset.
CounterOf(this) == IF this.callOrder = Undefined THEN 0 ELSE this.callOrder[1]

\* C14: in every reachable state a selector's rank counter is the highest rank
\* among the mutator calls that succeeded on it (unset when none has) and no
\* category of a rank above the counter holds a value; over every step the
\* counter does not decrease.
C14_RankCounter ==
  /\ [](\A s \in 1..Len(selectors) :
          /\ selectors[s].callOrder
               = (IF Len(reached[s]) = 0 THEN Undefined ELSE <<Highest(reached[s])>>)
          /\ \A cat \in Categories :
               HoldsValue(selectors[s], cat) => Rank(cat) <= CounterOf(selectors[s]))
  /\ [][\A s \in 1..Len(selectors) :
          CounterOf(selectors'[s]) >= CounterOf(selectors[s])]_vars

\* Three calls of rising rank have succeeded on one selector, and its counter
\* is the rank of the third.
C14_Witness ==
  \E s \in 1..Len(selectors) :
    /\ Len(reached[s]) >= 3
    /\ reached[s][1] < reached[s][2]
    /\ reached[s][2] < reached[s][3]
    /\ selectors[s].callOrder = <<reached[s][3]>>

\* ------------------------------------------------------------ C15

\* C15: once combine(a, t, b) has returned, what the combiner's stringify()
\* returns is the same at every later time, whatever is called on a or b.
C15_CombinerImmutable ==
  [][\A j \in 1..Len(combiners) :
       stringifyNode(CombinerRef(j))' = stringifyNode(CombinerRef(j))]_vars

\* ------------------------------------------------------------ C16

\* C16: a mutator call that throws, with either error, leaves every field and
\* the rank counter of its selector as they were, so the selector renders the
\* same string and treats later calls as it would have.
C16_FailedCallChangesNothing ==
  [][(IsCall /\ last'.thrown # NoError)
       => /\ last'.thrown \in {throwOrder, throwUnique}
          /\ selectors'[Target] = selectors[Target]
          /\ reached' = reached
          /\ stringify(selectors'[Target]) = stringify(selectors[Target])
          /\ \A cat \in Categories, v \in Values :
               Mutator(cat, selectors'[Target], v) = Mutator(cat, selectors[Target], v)]_vars

\* A call has thrown on a selector that holds parts and renders a non-empty string.
C16_Witness ==
  /\ last.op = "call"
  /\ last.thrown # NoError
  /\ Len(reached[last.node.idx]) >= 2
  /\ Len(stringify(selectors[last.node.idx])) > 0

\* ------------------------------------------------------------ C17

\* C17: a call of element, id or pseudoElement that returns changes its own
\* field, to its argument, and the rank counter, and nothing else; a call of
\* class, attr or pseudoClass that returns appends its argument as the last
\* entry of its own array, keeps the earlier entries in place, and changes
\* nothing else but the rank counter.
C17_SuccessfulCallFrame ==
  [][(IsCall /\ last'.thrown = NoError)
       => LET pre == selectors[Target]
              post == selectors'[Target]
              c == last'.cat
              v == last'.value
              counted == [pre EXCEPT !.callOrder = <<Rank(c)>>]
          IN  post = (CASE c = "element" -> [counted EXCEPT !.el_element = v]
                        [] c = "id" -> [counted EXCEPT !.el_id = v]
                        [] c = "pseudoElement" -> [counted EXCEPT !.el_pseudoElement = v]
                        [] c = "class" -> [counted EXCEPT !.el_class = Append(@, v)]
                        [] c = "attr" -> [counted EXCEPT !.el_attr = Append(@, v)]
                        [] c = "pseudoClass" ->
                             [counted EXCEPT !.el_pseudoClass = Append(@, v)])]_vars

\* A class was appended behind a different one, on a selector with an element.
C17_Witness ==
  /\ last.op = "call"
  /\ last.thrown = NoError
  /\ last.cat = "class"
  /\ LET this == selectors[last.node.idx] IN
       /\ Len(this.el_element) > 0
       /\ Len(this.el_class) >= 2
       /\ this.el_class[Len(this.el_class)] = last.value
       /\ this.el_class[1] # last.value

\* ------------------------------------------------------------ C18

\* C18: on a selector whose pseudo element holds a value every mutator call
\* throws, pseudoElement the uniqueness error and the others the order or the
\* uniqueness error, so the selector's fields and its rendering stay as they are.
C18_PseudoElementIsLast ==
  [][(IsCall /\ Len(selectors[Target].el_pseudoElement) > 0)
       => /\ last'.thrown \in {throwOrder, throwUnique}
          /\ last'.cat = "pseudoElement" => last'.thrown = throwUnique
          /\ selectors'[Target] = selectors[Target]
          /\ stringify(selectors'[Target]) = stringify(selectors[Target])]_vars

\* A pseudo class was refused on a selector that ends in a pseudo element.
C18_Witness ==
  /\ last.op = "call"
  /\ last.cat = "pseudoClass"
  /\ last.thrown = throwOrder
  /\ Len(selectors[last.node.idx].el_pseudoElement) > 0

\* ------------------------------------------------------------ C13

\* C13: new Rectangle(w, h) returns an object whose width is w and whose height
\* is h, and getArea() returns the product of the width and the height the
\* object has when getArea is called.
C13_RectangleArea ==
  /\ last.op = "new Rectangle"
       => /\ objects[last.ret].width = last.width
          /\ objects[last.ret].height = last.height
  /\ last.op = "getArea"
       => last.out = objects[last.node].width * objects[last.node].height

\* The area was asked for after a field was given a value that changes it.
C13_Witness ==
  /\ last.op = "getArea"
  /\ LET r == objects[last.node] IN
       /\ r.width # r.getArea.width
       /\ r.width * r.height # r.getArea.width * r.getArea.height
       /\ last.out = r.width * r.height

\* ------------------------------------------------------------ C12

\* The own fields of an object, as a set of key/value pairs.
Fields(props) == {<<props[i].k, props[i].v>> : i \in 1..Len(props)}

\* C12: when fromJSON(proto, json) returns, for any json object text, the
\* object is a new one, its prototype is proto, and its own fields are exactly
\* the key/value pairs JSON.parse read from json.
C12_FromJSONResult ==
  (last.op = "fromJSON" /\ last.thrown = NoError)
    => /\ last.ret = Len(objects)
       /\ objects[last.ret].proto = last.proto
       /\ Fields(objects[last.ret].props) = Fields(JSON_parse(last.json).v.v)

\* ------------------------------------------------------------ C11

\* C11: for every plain data object obj and every prototype proto,
\* getJSON(fromJSON(proto, getJSON(obj))) is the text getJSON(obj).
C11_RoundTrip ==
  (last.op = "fromJSON" /\ \E obj \in PlainObjects : last.json = getJSON(obj))
    => /\ last.thrown = NoError
       /\ getJSON(OwnProperties(objects[last.ret])) = last.json

====
